---- MODULE Spec2Model ----
(***************************************************************************)
(* A model of package dconfig (src/dconfig.go): the option registry        *)
(* (Reset, AddString, AddInt, AddFloat, AddBool, OptionType) and the line  *)
(* parser and coercion engine (Configure, setOption).                      *)
(*                                                                         *)
(* A Go string is modelled as a sequence of one-character strings, so that *)
(* case folding, trimming and regular-expression matching are computed     *)
(* character by character as the library routines compute them.            *)
(* A pointer target (to a string, int, float64 or bool) is the index of a  *)
(* caller-owned cell; Nil is the nil pointer a Go map yields for a missing *)
(* key.                                                                    *)
(***************************************************************************)
EXTENDS Integers, Sequences, FiniteSets, TLC

VARIABLES str_map, int_map, float_map, bool_map, option_flags,
          strs, ints, floats, bools, fs, ret

vars == <<str_map, int_map, float_map, bool_map, option_flags,
          strs, ints, floats, bools, fs, ret>>

(***************************************************************************)
(* Flag and type constants. STRING is a reserved word of TLA+, so the       *)
(* source's STRING is STRING_T here.                                       *)
(***************************************************************************)
STRIP == 1
UPPER == 2
LOWER == 4
UNSIGNED == 8
NONE == 0
BOOL == 16
FLOAT == 32
INT == 64
STRING_T == 128

\* Bitwise operations on uint8, bit by bit.
Bits == {1, 2, 4, 8, 16, 32, 64, 128}

BitSet(val, bit) == (val \div bit) % 2 = 1

RECURSIVE SumOver(_, _)
SumOver(S, f) ==
    IF S = {} THEN 0
    ELSE LET b == CHOOSE x \in S : TRUE
         IN  (IF BitSet(f, b) THEN b ELSE 0) + SumOver(S \ {b}, f)

\* a & b
BitAnd(a, b) == SumOver({x \in Bits : BitSet(b, x)}, a)

\* a | b
BitOr(a, b) == a + b - BitAnd(a, b)

all_types == BitOr(BitOr(STRING_T, INT), BitOr(FLOAT, BOOL))
disallowed_str_opts == UNSIGNED
disallowed_int_opts == BitOr(STRIP, BitOr(UPPER, LOWER))
disallowed_float_opts == BitOr(STRIP, BitOr(UPPER, LOWER))

hasAttr(val, attrib) == BitAnd(val, attrib) # 0

(***************************************************************************)
(* Characters and strings.                                                 *)
(***************************************************************************)
LowerLetters == <<"a","b","c","d","e","f","g","h","i","j","k","l","m",
                  "n","o","p","q","r","s","t","u","v","w","x","y","z">>
UpperLetters == <<"A","B","C","D","E","F","G","H","I","J","K","L","M",
                  "N","O","P","Q","R","S","T","U","V","W","X","Y","Z">>
Digits == <<"0","1","2","3","4","5","6","7","8","9">>

\* The characters \s and strings.TrimSpace treat as white space, among those
\* the model's files use.
WhiteSpace == {" ", "\t"}

IsSpace(c) == c \in WhiteSpace
IsDigit(c) == \E i \in 1..10 : Digits[i] = c
DigitVal(c) == (CHOOSE i \in 1..10 : Digits[i] = c) - 1

ToUpperCh(c) ==
    IF \E i \in 1..26 : LowerLetters[i] = c
    THEN UpperLetters[CHOOSE i \in 1..26 : LowerLetters[i] = c]
    ELSE c

ToLowerCh(c) ==
    IF \E i \in 1..26 : UpperLetters[i] = c
    THEN LowerLetters[CHOOSE i \in 1..26 : UpperLetters[i] = c]
    ELSE c

\* strings.ToUpper, strings.ToLower
ToUpper(s) == [i \in 1..Len(s) |-> ToUpperCh(s[i])]
ToLower(s) == [i \in 1..Len(s) |-> ToLowerCh(s[i])]

\* strings.TrimSpace: the slice between the first and the last character
\* that is not white space.
TrimSpace(s) ==
    LET ns == {i \in 1..Len(s) : ~IsSpace(s[i])}
    IN  IF ns = {} THEN << >>
        ELSE LET lo == CHOOSE i \in ns : \A j \in ns : i <= j
                 hi == CHOOSE i \in ns : \A j \in ns : j <= i
             IN  SubSeq(s, lo, hi)

\* The nil pointer, and the value a Go map yields for a key it does not hold.
Nil == 0

Lookup(m, k) == IF k \in DOMAIN m THEN m[k] ELSE Nil

\* m[k] = v
Store(m, k, v) == [x \in (DOMAIN m) \cup {k} |-> IF x = k THEN v ELSE m[x]]

\* make(map[string]T)
EmptyMap == [x \in {} |-> Nil]

(***************************************************************************)
(* The registry: five package-level maps.                                  *)
(***************************************************************************)
Registry == [str_map |-> str_map, int_map |-> int_map,
             float_map |-> float_map, bool_map |-> bool_map,
             option_flags |-> option_flags]

\* Reset with the map of the booleans left as it is.
ResetOp_KeepsBools == [str_map |-> EmptyMap, int_map |-> EmptyMap,
                       float_map |-> EmptyMap, bool_map |-> bool_map,
                       option_flags |-> EmptyMap]

ResetOp == [str_map |-> EmptyMap, int_map |-> EmptyMap,
            float_map |-> EmptyMap, bool_map |-> EmptyMap,
            option_flags |-> EmptyMap]

OptionType(R, opt) ==
    LET uname == ToUpper(opt)
    IN  IF uname \in DOMAIN R.str_map THEN STRING_T
        ELSE IF uname \in DOMAIN R.int_map THEN INT
        ELSE IF uname \in DOMAIN R.float_map THEN FLOAT
        ELSE IF uname \in DOMAIN R.bool_map THEN BOOL
        ELSE NONE

optionExists(R, opt) == OptionType(R, opt) # NONE

\* The AddXxx functions return the registry they leave and the error they
\* return: "ok" for nil.
AddIntOp(R, target, name, flags) ==
    IF BitAnd(flags, disallowed_int_opts) # 0
    THEN [reg |-> R, err |-> "UnsupportedFlag"]
    ELSE LET uname == ToUpper(name)
         IN  IF optionExists(R, uname)
             THEN [reg |-> R, err |-> "DuplicateOption"]
             ELSE [reg |-> [R EXCEPT !.int_map = Store(@, uname, target),
                                     !.option_flags =
                                         Store(@, uname, BitOr(flags, INT))],
                   err |-> "ok"]

\* AddString seeking the name among the string options only.
AddStringOp_OwnMapOnly(R, target, name, flags) ==
    IF BitAnd(flags, disallowed_str_opts) # 0
    THEN [reg |-> R, err |-> "UnsupportedFlag"]
    ELSE LET uname == ToUpper(name)
         IN  IF uname \in DOMAIN R.str_map
             THEN [reg |-> R, err |-> "DuplicateOption"]
             ELSE [reg |-> [R EXCEPT !.str_map = Store(@, uname, target),
                                     !.option_flags =
                                         Store(@, uname, BitOr(flags, STRING_T))],
                   err |-> "ok"]

AddStringOp(R, target, name, flags) ==
    IF BitAnd(flags, disallowed_str_opts) # 0
    THEN [reg |-> R, err |-> "UnsupportedFlag"]
    ELSE LET uname == ToUpper(name)
         IN  IF optionExists(R, uname)
             THEN [reg |-> R, err |-> "DuplicateOption"]
             ELSE [reg |-> [R EXCEPT !.str_map = Store(@, uname, target),
                                     !.option_flags =
                                         Store(@, uname, BitOr(flags, STRING_T))],
                   err |-> "ok"]

AddFloatOp(R, target, name, flags) ==
    IF BitAnd(flags, disallowed_float_opts) # 0
    THEN [reg |-> R, err |-> "UnsupportedFlag"]
    ELSE LET uname == ToUpper(name)
         IN  IF optionExists(R, uname)
             THEN [reg |-> R, err |-> "DuplicateOption"]
             ELSE [reg |-> [R EXCEPT !.float_map = Store(@, uname, target),
                                     !.option_flags =
                                         Store(@, uname, BitOr(flags, FLOAT))],
                   err |-> "ok"]

AddBoolOp(R, target, name) ==
    LET uname == ToUpper(name)
    IN  IF optionExists(R, uname)
        THEN [reg |-> R, err |-> "DuplicateOption"]
        ELSE [reg |-> [R EXCEPT !.bool_map = Store(@, uname, target),
                                !.option_flags = Store(@, uname, BOOL)],
              err |-> "ok"]

(***************************************************************************)
(* The regular expressions compiled by init(), as the matches Go's regexp  *)
(* package reports: the leftmost match, greedy operators preferring the    *)
(* longer alternative.                                                     *)
(***************************************************************************)
\* comment_re = ^\s*# ; MatchString
comment_re(line) ==
    \E k \in 0..(Len(line) - 1) :
        /\ \A i \in 1..k : IsSpace(line[i])
        /\ line[k + 1] = "#"

\* nonblank_re = \S ; MatchString
nonblank_re(line) == \E i \in 1..Len(line) : ~IsSpace(line[i])

IsSep(c) == c \in {":", "="}

\* option_re without its leading \s*: ^([^:=]+)=(.*)$
option_re_NoLeadingSpace(line) ==
    LET n == Len(line)
        ms == {m \in 1..(n - 1) :
                  /\ \A i \in 1..m : ~IsSep(line[i])
                  /\ line[m + 1] = "="}
    IN  IF ms = {} THEN [ok |-> FALSE, key |-> << >>, value |-> << >>]
        ELSE LET m == CHOOSE x \in ms : TRUE
             IN  [ok |-> TRUE, key |-> SubSeq(line, 1, m),
                  value |-> SubSeq(line, m + 2, n)]

\* option_re = ^\s*([^:=]+)=(.*)$ ; FindStringSubmatch. A candidate <<k, m>>
\* gives \s* the first k characters and the group the next m; the match
\* reported is the one with the longest \s*, then the longest group.
option_re(line) ==
    LET n == Len(line)
        cands == {c \in (0..n) \X (1..n) :
                     /\ c[1] + c[2] + 1 <= n
                     /\ \A i \in 1..c[1] : IsSpace(line[i])
                     /\ \A i \in (c[1] + 1)..(c[1] + c[2]) : ~IsSep(line[i])
                     /\ line[c[1] + c[2] + 1] = "="}
    IN  IF cands = {} THEN [ok |-> FALSE, key |-> << >>, value |-> << >>]
        ELSE LET best == CHOOSE c \in cands :
                             \A d \in cands :
                                 \/ d[1] < c[1]
                                 \/ (d[1] = c[1] /\ d[2] <= c[2])
             IN  [ok |-> TRUE,
                  key |-> SubSeq(line, best[1] + 1, best[1] + best[2]),
                  value |-> SubSeq(line, best[1] + best[2] + 2, n)]

\* The character class of the number tokens: \d, or [0-9.] with dot set.
InClass(c, dot) == IsDigit(c) \/ (dot /\ c = ".")

\* The end of the longest run of characters of the class that starts at
\* position i of s (i - 1 when s[i] is not in the class).
RunEnd(s, i, dot) ==
    LET ends == {j \in (i - 1)..Len(s) : \A x \in i..j : InClass(s[x], dot)}
    IN  CHOOSE j \in ends : \A x \in ends : x <= j

\* FindString for -?C+ (signed) and C+ (unsigned), C the character class:
\* the leftmost match, "" when there is none.
FindToken(s, signed, dot) ==
    LET starts == {i \in 1..Len(s) :
                      \/ InClass(s[i], dot)
                      \/ (/\ signed
                          /\ s[i] = "-"
                          /\ i < Len(s)
                          /\ InClass(s[i + 1], dot))}
    IN  IF starts = {} THEN << >>
        ELSE LET i == CHOOSE x \in starts : \A y \in starts : x <= y
                 from == IF InClass(s[i], dot) THEN i ELSE i + 1
             IN  SubSeq(s, i, RunEnd(s, from, dot))

IsFloatCh(c) == InClass(c, TRUE)

\* int_token = -?\d+ , uint_token = \d+
int_token(s) == FindToken(s, TRUE, FALSE)
uint_token(s) == FindToken(s, FALSE, FALSE)
\* float_token = -?[0-9.]+ , ufloat_token = [0-9.]+
float_token(s) == FindToken(s, TRUE, TRUE)
ufloat_token(s) == FindToken(s, FALSE, TRUE)

(***************************************************************************)
(* strconv.Atoi and strconv.ParseFloat on the tokens the expressions above *)
(* can yield.                                                              *)
(***************************************************************************)
RECURSIVE DecVal(_)
DecVal(ds) ==
    IF ds = << >> THEN 0
    ELSE 10 * DecVal(SubSeq(ds, 1, Len(ds) - 1)) + DigitVal(ds[Len(ds)])

\* strconv.Atoi: an optional sign and one or more decimal digits. A run of
\* digits as long as the model's values allow is within the range of int,
\* so the range error does not arise.
Atoi(s) ==
    LET signed == s # << >> /\ s[1] \in {"+", "-"}
        ds == IF signed THEN Tail(s) ELSE s
    IN  IF ds = << >> \/ \E i \in 1..Len(ds) : ~IsDigit(ds[i])
        THEN [ok |-> FALSE, val |-> 0]
        ELSE [ok |-> TRUE,
              val |-> IF signed /\ s[1] = "-" THEN 0 - DecVal(ds) ELSE DecVal(ds)]

\* A float64 is the pair <<m, e>> standing for m / 10^e, in lowest terms of
\* ten (Go's == does not tell -0 from 0, and neither does the pair).
RECURSIVE NormFloat(_, _)
NormFloat(m, e) ==
    IF m = 0 THEN <<0, 0>>
    ELSE IF e > 0 /\ m % 10 = 0 THEN NormFloat(m \div 10, e - 1)
    ELSE <<m, e>>

\* strconv.ParseFloat(s, 64) on a string of digits, '.' and a leading sign:
\* it wants at least one digit and at most one '.'.
ParseFloat(s) ==
    LET signed == s # << >> /\ s[1] \in {"+", "-"}
        body == IF signed THEN Tail(s) ELSE s
        dots == {i \in 1..Len(body) : body[i] = "."}
        ds == SelectSeq(body, IsDigit)
    IN  IF \/ ds = << >>
           \/ Cardinality(dots) > 1
           \/ \E i \in 1..Len(body) : ~IsFloatCh(body[i])
        THEN [ok |-> FALSE, val |-> <<0, 0>>]
        ELSE LET e == IF dots = {} THEN 0
                      ELSE Len(body) - (CHOOSE i \in dots : TRUE)
                 m == IF signed /\ s[1] = "-" THEN 0 - DecVal(ds) ELSE DecVal(ds)
             IN  [ok |-> TRUE, val |-> NormFloat(m, e)]

boolean_trues == {<<"1">>, <<"t">>, <<"t","r","u","e">>, <<"y">>,
                  <<"y","e","s">>, <<"+">>}
boolean_falses == {<<"0">>, <<"f">>, <<"f","a","l","s","e">>, <<"n">>,
                   <<"n","o">>, <<"-">>, <<"n","i","l">>}

(***************************************************************************)
(* setOption. C is the caller's cells, [strs, ints, floats, bools]; the    *)
(* result is the cells it leaves and the error it returns. Writing through *)
(* a nil pointer panics.                                                   *)
(***************************************************************************)
Cells == [strs |-> strs, ints |-> ints, floats |-> floats, bools |-> bools]

\* *(ptr) = v, for ptr a pointer into the cells named field
StoreThrough(C, field, ptr, v) ==
    IF ptr = Nil THEN [cells |-> C, err |-> "panic"]
    ELSE [cells |-> [C EXCEPT ![field][ptr] = v], err |-> "ok"]

setString(C, R, uname, flags, value) ==
    LET v1 == IF hasAttr(flags, STRIP) THEN TrimSpace(value) ELSE value
        v2 == IF hasAttr(flags, LOWER) THEN ToLower(v1)
              ELSE IF hasAttr(flags, UPPER) THEN ToUpper(v1)
              ELSE v1
    IN  StoreThrough(C, "strs", Lookup(R.str_map, uname), v2)

\* setInt adding the parsed integer to the target: *p += iv
setInt_Accumulate(C, R, uname, flags, value) ==
    LET tok == IF hasAttr(flags, UNSIGNED) THEN uint_token(value)
               ELSE int_token(value)
        iv == Atoi(tok)
        ptr == Lookup(R.int_map, uname)
    IN  IF ~iv.ok THEN [cells |-> C, err |-> "NotInteger"]
        ELSE IF ptr = Nil THEN [cells |-> C, err |-> "panic"]
        ELSE StoreThrough(C, "ints", ptr, C.ints[ptr] + iv.val)

setInt(C, R, uname, flags, value) ==
    LET tok == IF hasAttr(flags, UNSIGNED) THEN uint_token(value)
               ELSE int_token(value)
        iv == Atoi(tok)
    IN  IF ~iv.ok THEN [cells |-> C, err |-> "NotInteger"]
        ELSE StoreThrough(C, "ints", Lookup(R.int_map, uname), iv.val)

setFloat(C, R, uname, flags, value) ==
    LET tok == IF hasAttr(flags, UNSIGNED) THEN ufloat_token(value)
               ELSE float_token(value)
        fv == ParseFloat(tok)
    IN  IF ~fv.ok THEN [cells |-> C, err |-> "NotFloat"]
        ELSE StoreThrough(C, "floats", Lookup(R.float_map, uname), fv.val)

\* setBool folding the case of the value without trimming it, as boolRead
\* does.
setBool_NoTrim(C, R, uname, flags, value) ==
    LET v == ToLower(value)
    IN  IF v \in boolean_trues
        THEN StoreThrough(C, "bools", Lookup(R.bool_map, uname), TRUE)
        ELSE IF v \in boolean_falses
        THEN StoreThrough(C, "bools", Lookup(R.bool_map, uname), FALSE)
        ELSE [cells |-> C, err |-> "NotBoolean"]

setBool(C, R, uname, flags, value) ==
    LET v == ToLower(TrimSpace(value))
    IN  IF v \in boolean_trues
        THEN StoreThrough(C, "bools", Lookup(R.bool_map, uname), TRUE)
        ELSE IF v \in boolean_falses
        THEN StoreThrough(C, "bools", Lookup(R.bool_map, uname), FALSE)
        ELSE [cells |-> C, err |-> "NotBoolean"]

setOption(C, R, name, value) ==
    LET uname == ToUpper(name)
    IN  IF uname \notin DOMAIN R.option_flags
        THEN [cells |-> C, err |-> "UnrecognizedOption"]
        ELSE LET flags == R.option_flags[uname]
             IN  IF hasAttr(flags, STRING_T) THEN setString(C, R, uname, flags, value)
                 ELSE IF hasAttr(flags, INT) THEN setInt(C, R, uname, flags, value)
                 ELSE IF hasAttr(flags, FLOAT) THEN setFloat(C, R, uname, flags, value)
                 ELSE IF hasAttr(flags, BOOL) THEN setBool(C, R, uname, flags, value)
                 ELSE [cells |-> C, err |-> "LogicalError"]

(***************************************************************************)
(* Configure. F is the file system: F[path] says whether the path exists   *)
(* (os.Stat succeeds), whether it opens for reading (os.Open succeeds) and *)
(* holds the lines bufio.Scanner yields. The result carries the cells left,*)
(* the error returned ("panic" when setOption panicked), the set of files  *)
(* opened and, per line, what the verbose diagnostics tell of it.          *)
(***************************************************************************)
Stat(F, fname) == fname \in DOMAIN F /\ F[fname].exists

\* The loop without its break: the last candidate that exists.
FindCfgFile_NoBreak(F, files) ==
    LET found == {i \in 1..Len(files) : Stat(F, files[i])}
    IN  IF found = {} THEN ""
        ELSE files[CHOOSE i \in found : \A j \in found : j <= i]

\* The loop that seeks the candidates in order; "" when none exists.
FindCfgFile(F, files) ==
    LET found == {i \in 1..Len(files) : Stat(F, files[i])}
    IN  IF found = {} THEN ""
        ELSE files[CHOOSE i \in found : \A j \in found : i <= j]

LogEntry(class, key, value, err) ==
    [class |-> class, key |-> key, value |-> value, err |-> err]

\* The call of setOption for a line option_re matches, and the line's log
\* entry: Configure drops the error setOption returns.
ScanEntry(r, matches) ==
    [cells |-> r.cells,
     entry |-> LogEntry("entry", matches.key, matches.value, r.err)]

ScanMatch(C, R, matches) ==
    IF ~matches.ok
    THEN [cells |-> C, entry |-> LogEntry("malformed", << >>, << >>, "ok")]
    ELSE ScanEntry(setOption(C, R, matches.key, matches.value), matches)

\* One iteration of the scanner loop: the cells left and the line's log entry.
ScanLine(C, R, line) ==
    IF comment_re(line)
    THEN [cells |-> C, entry |-> LogEntry("comment", << >>, << >>, "ok")]
    ELSE IF ~nonblank_re(line)
    THEN [cells |-> C, entry |-> LogEntry("blank", << >>, << >>, "ok")]
    ELSE ScanMatch(C, R, option_re(line))

\* The scanner loop from line i on; r is what line i - 1 left. A panic in
\* setOption ends it.
RECURSIVE ScanLines(_, _, _, _, _)
ScanLines(r, R, lines, i, log) ==
    IF r.entry.err = "panic"
    THEN [cells |-> r.cells, err |-> "panic", log |-> Append(log, r.entry)]
    ELSE IF i > Len(lines)
    THEN [cells |-> r.cells, err |-> "ok", log |-> Append(log, r.entry)]
    ELSE ScanLines(ScanLine(r.cells, R, lines[i]), R, lines, i + 1,
                   Append(log, r.entry))

\* The scan of a whole file: the loop, entered with no line read yet.
ScanFile(C, R, lines) ==
    IF lines = << >> THEN [cells |-> C, err |-> "ok", log |-> << >>]
    ELSE ScanLines(ScanLine(C, R, lines[1]), R, lines, 2, << >>)

ConfigureFile(C, R, F, cfg_file) ==
    IF cfg_file = ""
    THEN [cells |-> C, err |-> "NoConfigFileFound", opened |-> {},
          log |-> << >>]
    ELSE IF ~F[cfg_file].readable
    THEN [cells |-> C, err |-> "FileOpenError", opened |-> {}, log |-> << >>]
    ELSE ScanFile(C, R, F[cfg_file].lines) @@ [opened |-> {cfg_file}]

Configure(C, R, F, files) == ConfigureFile(C, R, F, FindCfgFile(F, files))

(***************************************************************************)
(* The calls a program makes, as actions. ret records the last call: its   *)
(* arguments, what it returned, and which call came before it.             *)
(***************************************************************************)
Ret(op, name, flags, target, err, typ, files, opened, log) ==
    [op |-> op, name |-> name, flags |-> flags, target |-> target,
     err |-> err, typ |-> typ, files |-> files, opened |-> opened,
     log |-> log, prev |-> ret.op]

SetRegistry(R) ==
    /\ str_map' = R.str_map
    /\ int_map' = R.int_map
    /\ float_map' = R.float_map
    /\ bool_map' = R.bool_map
    /\ option_flags' = R.option_flags

SetCells(C) ==
    /\ strs' = C.strs
    /\ ints' = C.ints
    /\ floats' = C.floats
    /\ bools' = C.bools

\* init() ends with Reset(): the registry a program starts with.
SetRegistryInit ==
    /\ str_map = EmptyMap
    /\ int_map = EmptyMap
    /\ float_map = EmptyMap
    /\ bool_map = EmptyMap
    /\ option_flags = EmptyMap

Reset ==
    /\ SetRegistry(ResetOp)
    /\ ret' = Ret("Reset", << >>, NONE, Nil, "ok", NONE, << >>, {}, << >>)
    /\ UNCHANGED <<strs, ints, floats, bools, fs>>

AddString(target, name, flags) ==
    LET r == AddStringOp(Registry, target, name, flags)
    IN  /\ SetRegistry(r.reg)
        /\ ret' = Ret("AddString", name, flags, target, r.err, NONE, << >>,
                      {}, << >>)
        /\ UNCHANGED <<strs, ints, floats, bools, fs>>

AddInt(target, name, flags) ==
    LET r == AddIntOp(Registry, target, name, flags)
    IN  /\ SetRegistry(r.reg)
        /\ ret' = Ret("AddInt", name, flags, target, r.err, NONE, << >>,
                      {}, << >>)
        /\ UNCHANGED <<strs, ints, floats, bools, fs>>

AddFloat(target, name, flags) ==
    LET r == AddFloatOp(Registry, target, name, flags)
    IN  /\ SetRegistry(r.reg)
        /\ ret' = Ret("AddFloat", name, flags, target, r.err, NONE, << >>,
                      {}, << >>)
        /\ UNCHANGED <<strs, ints, floats, bools, fs>>

AddBool(target, name) ==
    LET r == AddBoolOp(Registry, target, name)
    IN  /\ SetRegistry(r.reg)
        /\ ret' = Ret("AddBool", name, NONE, target, r.err, NONE, << >>,
                      {}, << >>)
        /\ UNCHANGED <<strs, ints, floats, bools, fs>>

CallOptionType(name) ==
    /\ ret' = Ret("OptionType", name, NONE, Nil, "ok",
                  OptionType(Registry, name), << >>, {}, << >>)
    /\ UNCHANGED <<str_map, int_map, float_map, bool_map, option_flags,
                   strs, ints, floats, bools, fs>>

ConfigureReturns(r, files) ==
    /\ SetCells(r.cells)
    /\ ret' = Ret("Configure", << >>, NONE, Nil, r.err, NONE, files,
                  r.opened, r.log)
    /\ UNCHANGED <<str_map, int_map, float_map, bool_map, option_flags, fs>>

CallConfigure(files) ==
    ConfigureReturns(Configure(Cells, Registry, fs, files), files)

(***************************************************************************)
(* The caller's variables, after example/example.go: two of its strings,   *)
(* its int, its float64 and its bool, each holding the caller's default.   *)
(***************************************************************************)
StrTargets == {1, 2}
IntTargets == {1}
FloatTargets == {1}
BoolTargets == {1}

DefaultString == <<"s", "w", "a", "l", "l", "o", "w">>
DefaultInt == 4
DefaultFloat == <<126, 1>>
DefaultBool == TRUE

DefaultCells ==
    /\ strs = [c \in StrTargets |-> DefaultString]
    /\ ints = [c \in IntTargets |-> DefaultInt]
    /\ floats = [c \in FloatTargets |-> DefaultFloat]
    /\ bools = [c \in BoolTargets |-> DefaultBool]

File(lines) == [exists |-> TRUE, readable |-> TRUE, lines |-> lines]
Unreadable == [exists |-> TRUE, readable |-> FALSE, lines |-> << >>]
Absent == [exists |-> FALSE, readable |-> FALSE, lines |-> << >>]

NoCall == [op |-> "init", name |-> << >>, flags |-> NONE, target |-> Nil,
           err |-> "ok", typ |-> NONE, files |-> << >>, opened |-> {},
           log |-> << >>, prev |-> "init"]

InitRegistry(R) ==
    /\ str_map = R.str_map
    /\ int_map = R.int_map
    /\ float_map = R.float_map
    /\ bool_map = R.bool_map
    /\ option_flags = R.option_flags

\* The sequences over S of length at most n
SeqsUpTo(S, n) == UNION {[1..k -> S] : k \in 0..n}

(***************************************************************************)
(* Spec: a program that calls Reset, the AddXxx functions, OptionType and  *)
(* Configure in any order, over one configuration file.                    *)
(***************************************************************************)
Names == {<<"a">>, <<"A">>}

\* The flags the program passes: none, a string flag, the number flag, and
\* a type bit, which shares the byte with them.
FlagInputs == {NONE, STRIP, UNSIGNED, STRING_T}

MainConf == << <<"a", "=", "0">>,
               <<"#", "a", "=", "1">>,
               <<"b", "=", "1">>,
               <<"a", ":", "2">> >>

CandLists == {<<"conf">>, <<"none", "conf">>, <<"none">>}

Init ==
    /\ SetRegistryInit
    /\ DefaultCells
    /\ fs = [p \in {"conf"} |-> File(MainConf)]
    /\ ret = NoCall

Next ==
    \/ Reset
    \/ \E t \in StrTargets, n \in Names, f \in FlagInputs : AddString(t, n, f)
    \/ \E t \in IntTargets, n \in Names, f \in FlagInputs : AddInt(t, n, f)
    \/ \E t \in FloatTargets, n \in Names, f \in FlagInputs : AddFloat(t, n, f)
    \/ \E t \in BoolTargets, n \in Names : AddBool(t, n)
    \/ \E n \in Names : CallOptionType(n)
    \/ \E files \in CandLists : CallConfigure(files)

Spec == Init /\ [][Next]_vars

(***************************************************************************)
(* Properties of the registry, under Spec.                                 *)
(***************************************************************************)
AddOps == {"AddString", "AddInt", "AddFloat", "AddBool"}

RegistryUnchanged ==
    UNCHANGED <<str_map, int_map, float_map, bool_map, option_flags>>

CellsUnchanged == UNCHANGED <<strs, ints, floats, bools>>

\* The step is a call of one of the AddXxx functions with a name already
\* declared, under whatever type and in whatever letter case.
DuplicateCall ==
    /\ ret'.op \in AddOps
    /\ ret' # ret
    /\ OptionType(Registry, ret'.name) # NONE

\* The bits the flag table does not permit, per function, as the spec's
\* table gives them: Strip, Upper, Lower for strings, Unsigned for numbers.
NotPermitted(op) ==
    CASE op = "AddString" -> {8, 16, 32, 64, 128}
      [] op = "AddInt" -> {1, 2, 4, 16, 32, 64, 128}
      [] op = "AddFloat" -> {1, 2, 4, 16, 32, 64, 128}
      [] OTHER -> {}

\* The bits each function tests before it looks the name up.
Tested(op) ==
    CASE op = "AddString" -> {8}
      [] op = "AddInt" -> {1, 2, 4}
      [] op = "AddFloat" -> {1, 2, 4}
      [] OTHER -> {}

HasBitIn(flags, S) == \E b \in S : BitSet(flags, b)

\* Configure changes a cell only if the cell is the target registered for
\* an option of the cell's type.
WritesThroughRegistry ==
    /\ \A c \in StrTargets :
          strs'[c] # strs[c] => \E u \in DOMAIN str_map : str_map[u] = c
    /\ \A c \in IntTargets :
          ints'[c] # ints[c] => \E u \in DOMAIN int_map : int_map[u] = c
    /\ \A c \in FloatTargets :
          floats'[c] # floats[c] => \E u \in DOMAIN float_map : float_map[u] = c
    /\ \A c \in BoolTargets :
          bools'[c] # bools[c] => \E u \in DOMAIN bool_map : bool_map[u] = c

\* C1, as stated: an AddXxx call with an already declared name returns
\* DuplicateOption and leaves the registry unchanged.
C1_DuplicateReturnsDuplicateOption ==
    [][DuplicateCall => (ret'.err = "DuplicateOption" /\ RegistryUnchanged)]_vars

\* C1, amended: an AddXxx call with an already declared name is rejected
\* and leaves the registry unchanged; the error is DuplicateOption, unless
\* the flags hold a bit the function tests (Unsigned for AddString; Strip,
\* Upper or Lower for AddInt and AddFloat), and then it is UnsupportedFlag,
\* since the flags are tested first. A later Configure writes only through
\* the targets the registry holds, so never through the rejected one.
C1_DuplicateRejected ==
    [][/\ DuplicateCall =>
            /\ ret'.err = IF HasBitIn(ret'.flags, Tested(ret'.op))
                          THEN "UnsupportedFlag" ELSE "DuplicateOption"
            /\ RegistryUnchanged
       /\ ret'.op = "Configure" => (WritesThroughRegistry /\ RegistryUnchanged)
      ]_vars

\* A string option "A" with target 1 was declared and set by Configure, and
\* the last call tried to declare "a" again as a string with target 2.
C1_Witness ==
    /\ ret.op = "AddString"
    /\ ret.err = "DuplicateOption"
    /\ ret.name = <<"a">>
    /\ ret.target = 2
    /\ Lookup(str_map, <<"A">>) = 1
    /\ strs[1] = <<"0">>
    /\ strs[2] = DefaultString

\* C2: AddString, AddInt or AddFloat with a flag bit outside the table of
\* its type returns UnsupportedFlag and leaves the registry unchanged.
C2_UnsupportedFlagRejected ==
    [][(/\ ret'.op \in {"AddString", "AddInt", "AddFloat"}
        /\ ret' # ret
        /\ HasBitIn(ret'.flags, NotPermitted(ret'.op)))
       => (ret'.err = "UnsupportedFlag" /\ RegistryUnchanged)]_vars

\* C5: Reset leaves no declaration and changes no cell; after it every name
\* can be declared under any type, a Configure writes nothing, and a second
\* Reset changes nothing.
C5_Reset ==
    [][/\ ret'.op = "Reset" =>
            /\ DOMAIN str_map' = {} /\ DOMAIN int_map' = {}
            /\ DOMAIN float_map' = {} /\ DOMAIN bool_map' = {}
            /\ DOMAIN option_flags' = {}
            /\ \A n \in Names : OptionType(Registry', n) = NONE
            /\ CellsUnchanged
       /\ (ret.op = "Reset" /\ ret'.op \in AddOps) =>
            ret'.err # "DuplicateOption"
       /\ (ret.op = "Reset" /\ ret'.op = "Configure") => CellsUnchanged
       /\ (ret.op = "Reset" /\ ret'.op = "Reset") =>
            (RegistryUnchanged /\ CellsUnchanged)
      ]_vars

\* Reset was called after the name had been declared as a string, as an
\* int and as a bool, and configured each time.
C5_Witness ==
    /\ ret.op = "Reset"
    /\ strs[1] # DefaultString
    /\ ints[1] # DefaultInt
    /\ bools[1] # DefaultBool

TypeBits == {BOOL, FLOAT, INT, STRING_T}

HoldingMaps(u) ==
    {t \in TypeBits :
        \/ (t = STRING_T /\ u \in DOMAIN str_map)
        \/ (t = INT /\ u \in DOMAIN int_map)
        \/ (t = FLOAT /\ u \in DOMAIN float_map)
        \/ (t = BOOL /\ u \in DOMAIN bool_map)}

\* C10: every name is a key of at most one typed map, option_flags has the
\* keys of the four maps together, the byte stored for a name holds exactly
\* the type bit of the map holding it, and Configure neither reaches the
\* "logical error" branch nor writes through a missing map entry.
C10_RegistryConsistent ==
    /\ DOMAIN option_flags =
          DOMAIN str_map \cup DOMAIN int_map \cup DOMAIN float_map
             \cup DOMAIN bool_map
    /\ \A u \in DOMAIN option_flags :
          /\ Cardinality(HoldingMaps(u)) = 1
          /\ {t \in TypeBits : BitSet(option_flags[u], t)} = HoldingMaps(u)
    /\ ret.err # "panic"
    /\ \A i \in 1..Len(ret.log) : ret.log[i].err # "LogicalError"

(***************************************************************************)
(* SpecFiles: Configure over every file system of three paths and every    *)
(* list of candidates, the empty path among them, with one string option   *)
(* declared.                                                               *)
(***************************************************************************)
MaxCands == 2

Paths == {"p", "q", "r"}

ConfOne == << <<"a", "=", "1">> >>
ConfTwo == << <<"a", "=", "2">> >>

FileStates == {Absent, Unreadable, File(ConfOne), File(ConfTwo)}

FilesRegistry == AddStringOp(ResetOp, 1, <<"a">>, NONE).reg

InitFiles ==
    /\ InitRegistry(FilesRegistry)
    /\ DefaultCells
    /\ fs \in [Paths -> FileStates]
    /\ ret = NoCall

NextFiles ==
    \E files \in SeqsUpTo(Paths \cup {""}, MaxCands) : CallConfigure(files)

SpecFiles == InitFiles /\ [][NextFiles]_vars

\* The positions of the candidates that exist.
Existing(files) ==
    {i \in 1..Len(files) : files[i] \in DOMAIN fs /\ fs[files[i]].exists}

FirstExisting(files) ==
    files[CHOOSE i \in Existing(files) : \A j \in Existing(files) : i <= j]

ReadsOnly(path) ==
    /\ ret'.opened = {path}
    /\ ret'.err = "ok"
    /\ strs' = ScanFile(Cells, Registry, fs[path].lines).cells.strs
    /\ UNCHANGED <<ints, floats, bools>>

\* C4: Configure reads the first candidate that exists and no other; with
\* no candidate existing it returns NoConfigFileFound, and with the first
\* existing candidate unreadable it returns FileOpenError; in both cases it
\* opens no file and changes no target.
C4_FirstExistingFile ==
    [][ret'.op = "Configure" =>
          IF Existing(ret'.files) = {}
          THEN /\ ret'.err = "NoConfigFileFound"
               /\ ret'.opened = {}
               /\ CellsUnchanged
          ELSE IF ~fs[FirstExisting(ret'.files)].readable
          THEN /\ ret'.err = "FileOpenError"
               /\ ret'.opened = {}
               /\ CellsUnchanged
          ELSE ReadsOnly(FirstExisting(ret'.files))
      ]_vars

\* Configure returned FileOpenError on a list whose first candidate exists
\* and cannot be opened and whose second holds a=2, and the target kept
\* its default.
C4_Witness ==
    /\ ret.op = "Configure"
    /\ ret.err = "FileOpenError"
    /\ Len(ret.files) = 2
    /\ ret.files[1] \in Paths
    /\ ret.files[2] \in Paths
    /\ fs[ret.files[1]] = Unreadable
    /\ fs[ret.files[2]] = File(ConfTwo)
    /\ strs[1] = DefaultString

(***************************************************************************)
(* SpecLine: Configure over every one-line file whose line has at most     *)
(* MaxLineLen characters of LineAlphabet, with the string option "x"       *)
(* declared.                                                               *)
(***************************************************************************)
MaxLineLen == 4

LineAlphabet == {" ", "#", "=", ":", "x", "1"}

LineRegistry == AddStringOp(ResetOp, 1, <<"x">>, NONE).reg

InitLine ==
    /\ InitRegistry(LineRegistry)
    /\ DefaultCells
    /\ \E line \in SeqsUpTo(LineAlphabet, MaxLineLen) :
          fs = [p \in {"conf"} |-> File(<<line>>)]
    /\ ret = NoCall

NextLine == CallConfigure(<<"conf">>)

SpecLine == InitLine /\ [][NextLine]_vars

\* The position of the first character that is not white space; 0 if none.
FirstNonSpace(line) ==
    IF \A i \in 1..Len(line) : line[i] = " " THEN 0
    ELSE CHOOSE i \in 1..Len(line) :
             line[i] # " " /\ \A j \in 1..(i - 1) : line[j] = " "

\* The length of the longest prefix holding neither ':' nor '='.
PrefixLen(line) ==
    IF \A i \in 1..Len(line) : line[i] \notin {":", "="} THEN Len(line)
    ELSE (CHOOSE i \in 1..Len(line) :
              /\ line[i] \in {":", "="}
              /\ \A j \in 1..(i - 1) : line[j] \notin {":", "="}) - 1

\* The class the four rules give a line.
ClassOf(line) ==
    IF FirstNonSpace(line) # 0 /\ line[FirstNonSpace(line)] = "#"
    THEN "comment"
    ELSE IF FirstNonSpace(line) = 0 THEN "blank"
    ELSE IF /\ PrefixLen(line) >= 1
            /\ PrefixLen(line) < Len(line)
            /\ line[PrefixLen(line) + 1] = "="
    THEN "entry"
    ELSE "malformed"

\* The prefix without its leading white space; the last character of a
\* prefix that is all white space.
StrippedKey(line) ==
    IF FirstNonSpace(line) <= PrefixLen(line)
    THEN SubSeq(line, FirstNonSpace(line), PrefixLen(line))
    ELSE SubSeq(line, PrefixLen(line), PrefixLen(line))

\* The line Configure read, its log entry, and what the rules say of it
\* when its key is key.
Classified(line, e, key) ==
    /\ e.class = ClassOf(line)
    /\ e.class = "entry" =>
          /\ e.key = key
          /\ e.value = SubSeq(line, PrefixLen(line) + 2, Len(line))
          /\ strs[1] = IF ToUpper(key) = <<"X">> THEN e.value
                       ELSE DefaultString
    /\ e.class # "entry" => strs[1] = DefaultString

\* C6, as stated: a line is a comment, blank, an entry or malformed by the
\* four rules, and the key of an entry is the longest prefix holding
\* neither ':' nor '='.
C6_KeyIsPrefix ==
    ret.op = "Configure" =>
        Classified(fs["conf"].lines[1], ret.log[1],
                   SubSeq(fs["conf"].lines[1], 1,
                          PrefixLen(fs["conf"].lines[1])))

\* C6, amended: the classification is as stated, but the key of an entry
\* is the longest prefix holding neither ':' nor '=' with its leading white
\* space removed (when the prefix is all white space, its last character);
\* the value is the whole remainder after that first '='.
C6_LineClassification ==
    ret.op = "Configure" =>
        Classified(fs["conf"].lines[1], ret.log[1],
                   StrippedKey(fs["conf"].lines[1]))

\* Configure read the line " x=1" and set the option "x" to "1".
C6_Witness ==
    /\ ret.op = "Configure"
    /\ fs["conf"].lines[1] = <<" ", "x", "=", "1">>
    /\ ret.log[1].key = <<"x">>
    /\ strs[1] = <<"1">>

(***************************************************************************)
(* SpecInt: Configure over every one-line file n=<value>, the value of at  *)
(* most MaxValLen characters of IntAlphabet, with "n" declared by AddInt   *)
(* under each flags byte of IntFlagInputs that AddInt accepts.             *)
(***************************************************************************)
MaxValLen == 4

IntAlphabet == {"-", "0", "1", "7", "a"}

IntFlagInputs == {NONE, UNSIGNED, BOOL, STRING_T}

InitInt ==
    /\ \E f \in IntFlagInputs :
          /\ AddIntOp(ResetOp, 1, <<"n">>, f).err = "ok"
          /\ InitRegistry(AddIntOp(ResetOp, 1, <<"n">>, f).reg)
    /\ DefaultCells
    /\ \E raw \in SeqsUpTo(IntAlphabet, MaxValLen) :
          fs = [p \in {"conf"} |-> File(<< <<"n", "=">> \o raw >>)]
    /\ ret = NoCall

NextInt == CallConfigure(<<"conf">>)

SpecInt == InitInt /\ [][NextInt]_vars

\* The value of the one line of the file: what follows "n=", "b=".
RawValue == SubSeq(fs["conf"].lines[1], 3, Len(fs["conf"].lines[1]))

HasDigit(raw) == \E i \in 1..Len(raw) : IsDigit(raw[i])

FirstDigit(raw) ==
    CHOOSE i \in 1..Len(raw) :
        IsDigit(raw[i]) /\ \A j \in 1..(i - 1) : ~IsDigit(raw[j])

\* The end of the maximal run of digits that starts at position i.
DigitRunEnd(raw, i) ==
    CHOOSE j \in i..Len(raw) :
        /\ \A k \in i..j : IsDigit(raw[k])
        /\ (j = Len(raw) \/ ~IsDigit(raw[j + 1]))

\* The integer denoted by the first maximal run of digits, negated exactly
\* when the option is signed and a '-' stands right before the run.
FirstRunValue(raw, unsigned) ==
    IF /\ ~unsigned
       /\ FirstDigit(raw) > 1
       /\ raw[FirstDigit(raw) - 1] = "-"
    THEN 0 - DecVal(SubSeq(raw, FirstDigit(raw),
                           DigitRunEnd(raw, FirstDigit(raw))))
    ELSE DecVal(SubSeq(raw, FirstDigit(raw),
                       DigitRunEnd(raw, FirstDigit(raw))))

IntegerWritten(unsigned) ==
    /\ ints[1] = FirstRunValue(RawValue, unsigned)
    /\ unsigned => ints[1] >= 0

\* C7: for a declared Integer option and a value holding a digit,
\* Configure writes the integer denoted by the first maximal run of digits,
\* negated exactly when the option lacks Unsigned and '-' precedes the run;
\* an Unsigned option never receives a negative value.
C7_IntegerCoercion ==
    (/\ ret.op = "Configure"
     /\ OptionType(Registry, <<"n">>) = INT
     /\ HasDigit(RawValue))
    => IntegerWritten(BitSet(option_flags[<<"N">>], UNSIGNED))

(***************************************************************************)
(* SpecBool: Configure over the one-line files b=<value>, with the Boolean *)
(* option "b" declared and its target holding either default. The values  *)
(* are the boolean literals and other words, in lower case, upper case and *)
(* capitalised, with up to MaxPad blanks on either side.                   *)
(***************************************************************************)
MaxPad == 1

BoolWords ==
    boolean_trues \cup boolean_falses \cup
    {<< >>, <<"m","a","y","b","e">>, <<"2">>, <<"t","r","u">>,
     <<"y","e","s","s">>, <<"o","n">>, <<"n"," ","o">>, <<"t","1">>}

Capitalised(w) == [i \in 1..Len(w) |-> IF i = 1 THEN ToUpperCh(w[i]) ELSE w[i]]

Blanks(k) == [i \in 1..k |-> " "]

BoolRaws ==
    {Blanks(l) \o w \o Blanks(r) :
        l \in 0..MaxPad, r \in 0..MaxPad,
        w \in BoolWords \cup {ToUpper(x) : x \in BoolWords}
                \cup {Capitalised(x) : x \in BoolWords}}

InitBool ==
    /\ InitRegistry(AddBoolOp(ResetOp, 1, <<"b">>).reg)
    /\ strs = [c \in StrTargets |-> DefaultString]
    /\ ints = [c \in IntTargets |-> DefaultInt]
    /\ floats = [c \in FloatTargets |-> DefaultFloat]
    /\ bools \in [BoolTargets -> BOOLEAN]
    /\ \E raw \in BoolRaws :
          fs = [p \in {"conf"} |-> File(<< <<"b", "=">> \o raw >>)]
    /\ ret = NoCall

NextBool == CallConfigure(<<"conf">>)

SpecBool == InitBool /\ [][NextBool]_vars

TrueLiterals == {<<"1">>, <<"t">>, <<"t","r","u","e">>, <<"y">>,
                 <<"y","e","s">>, <<"+">>}
FalseLiterals == {<<"0">>, <<"f">>, <<"f","a","l","s","e">>, <<"n">>,
                  <<"n","o">>, <<"-">>, <<"n","i","l">>}

BooleanSet(tok) ==
    /\ tok \in TrueLiterals => (bools'[1] = TRUE /\ ret'.log[1].err = "ok")
    /\ tok \in FalseLiterals => (bools'[1] = FALSE /\ ret'.log[1].err = "ok")
    /\ tok \notin TrueLiterals \cup FalseLiterals =>
          (bools'[1] = bools[1] /\ ret'.log[1].err = "NotBoolean")

\* C8: for a Boolean option the value, trimmed and case-folded, sets the
\* target to true exactly when it is one of 1, t, true, y, yes, +, to false
\* exactly when it is one of 0, f, false, n, no, -, nil; any other value is
\* a coercion failure and the target keeps its value.
C8_BooleanCoercion ==
    [][ret'.op = "Configure" => BooleanSet(ToLower(TrimSpace(RawValue)))]_vars

\* Configure read b= YES (a blank on either side) and the target is true.
C8_Witness ==
    /\ ret.op = "Configure"
    /\ RawValue = <<" ", "Y", "E", "S", " ">>
    /\ ret.log[1].err = "ok"
    /\ bools[1] = TRUE

(***************************************************************************)
(* SpecScan: Configure, called again and again, over every file of at most *)
(* MaxLines lines of ScanSamples, with a string, an int and a bool option  *)
(* declared, and a float option declared with the STRING bit in its flags. *)
(***************************************************************************)
MaxLines == 3

ScanSamples ==
    { <<"s", "=", "x">>, <<"s", "=", " ", "y">>,
      <<"i", "=", "1">>, <<"i", "=", "-", "2">>, <<"i", "=", "z">>,
      <<"b", "=", "y", "e", "s">>, <<"b", "=", "n", "o">>, <<"b", "=", "2">>,
      <<"#", "s", "=", "q">>, <<"s", ":", "1">>, <<"q", "=", "1">>,
      <<"p", "=", "1">> }

ScanRegistry ==
    AddFloatOp(
        AddBoolOp(
            AddIntOp(AddStringOp(ResetOp, 1, <<"s">>, STRIP).reg,
                     1, <<"i">>, NONE).reg,
            1, <<"b">>).reg,
        1, <<"p">>, STRING_T).reg

InitScan ==
    /\ InitRegistry(ScanRegistry)
    /\ DefaultCells
    /\ \E lines \in SeqsUpTo(ScanSamples, MaxLines) :
          fs = [p \in {"conf"} |-> File(lines)]
    /\ ret = NoCall

NextScan == CallConfigure(<<"conf">>)

SpecScan == InitScan /\ [][NextScan]_vars

\* A line that is malformed, names an undeclared option, or whose value
\* fails coercion.
BadLine(line) ==
    \/ ScanLine(Cells, Registry, line).entry.class = "malformed"
    \/ ScanLine(Cells, Registry, line).entry.err
          \in {"UnrecognizedOption", "NotInteger", "NotFloat", "NotBoolean"}

GoodLine(line) == ~BadLine(line)

\* C3: Configure on a readable file returns success, and leaves every
\* target with the value that parsing the file without its bad lines gives.
C3_BadLineIsNoOp ==
    [][ret'.op = "Configure" =>
          /\ ret'.err = "ok"
          /\ Cells' = ScanFile(Cells, Registry,
                               SelectSeq(fs["conf"].lines, GoodLine)).cells
      ]_vars

\* C9: a Configure right after a Configure on the same file leaves every
\* target as the first left it, and returns what the first returned.
C9_Idempotent ==
    [][(ret.op = "Configure" /\ ret'.op = "Configure") =>
          /\ CellsUnchanged
          /\ ret'.err = ret.err
          /\ ret'.log = ret.log
      ]_vars

\* Configure was called twice in a row on a file that sets "i" to 1, then
\* has a line that fails, then sets "i" to -2: the last assignment stands.
C9_Witness ==
    /\ ret.op = "Configure"
    /\ ret.prev = "Configure"
    /\ fs["conf"].lines =
          << <<"i", "=", "1">>, <<"i", "=", "z">>, <<"i", "=", "-", "2">> >>
    /\ ints[1] = 0 - 2

====
